---- MODULE Spec2Model ----
(***************************************************************************)
(* DebateAgent: the access-token store (serve/DatabaseService.py,          *)
(* serve/TokenService.py), the REST gate and agent operations              *)
(* (serve/debate_api.py, serve/*_agent.py) and the generation workflow     *)
(* (serve/agent_service.py).                                               *)
(*                                                                         *)
(* The DynamoDB table DEBATE_ACCESS_CONTROL is a set of items keyed by     *)
(* (TOKEN_ID, STATUS).  Every boto3 call (query, delete_item, put_item) is *)
(* one atomic step; calls of concurrent requests interleave between them.  *)
(***************************************************************************)
EXTENDS Integers, Sequences, FiniteSets, TLC

\* ------------------------------------------------------------------ bounds
MaxCount == 2      \* largest REQUEST_COUNT a token is issued with
MaxTime == 2       \* the clock runs 0..MaxTime
MaxTtlHours == 1   \* largest ttl_hours passed to generate_available_token

Tokens == {"t1"}           \* token ids the issuer hands out
Procs == {"p1", "p2"}      \* concurrent callers of DatabaseService

VARIABLES
    store,      \* the table: a set of items, at most one per (TOKEN_ID, STATUS)
    now,        \* int(time.time())
    issued,     \* token id -> the item generate_available_token created, or NoItem
    call,       \* caller -> position inside decrement_request_count / mark_token_as_used
    ret,        \* the last call of DatabaseService that returned, with its value
    ndec,       \* token id -> number of decrement_request_count calls that returned
    exhausted,  \* token id -> a decrement has written REQUEST_COUNT 0 with STATUS USED
    resp,       \* the last REST generation request and the response it got
    nreq,       \* token id -> generation requests handled that carried the token
    served,     \* token id -> those answered with a statement the model generated
    wpc,        \* the node run_workflow executes next, or idle / end / done / raised
    gstate,     \* the GraphState the nodes hand on
    wtrace,     \* the nodes executed in this invocation, in order
    wcalls,     \* model and search calls made in this invocation
    wresult,    \* what run_workflow returned
    svc,        \* the DebateAgentService: self.temperature and the temperature of self.llm
    race,       \* caller -> what its last decrement read and returned, and
                \* whether another caller's decrement was in flight meanwhile
    judge,      \* the last judge response on_judge parsed, and what it made of it
    env,        \* os.environ as ConfigService reads it
    cfg,        \* the ConfigService singleton
    cresp,      \* the last configuration operation and its result
    agents      \* debate_api._agents: the keys get_agents has filled

storeVars == <<store, now, issued, call, ret, exhausted>>
restVars == <<resp, nreq, served>>
wfVars == <<wpc, gstate, wtrace, wcalls, wresult, svc>>
uiVars == <<judge>>
cfgVars == <<env, cfg, cresp, agents>>
vars == <<store, now, issued, call, ret, ndec, exhausted, resp, nreq, served,
          wpc, gstate, wtrace, wcalls, wresult, svc, race, judge, env, cfg, cresp, agents>>

\* ------------------------------------------------------------ the table
NoItem ==
    [TOKEN_ID |-> "", STATUS |-> "", PAYMENT_ID |-> "", EMAIL |-> "",
     CREATED_AT |-> 0, TTL |-> 0, REQUEST_COUNT |-> 0]

\* Items of one partition key in sort-key order: "AVAILABLE" sorts before "USED".
Query(tbl, token_id) ==
    LET av == {i \in tbl : i.TOKEN_ID = token_id /\ i.STATUS = "AVAILABLE"}
        us == {i \in tbl : i.TOKEN_ID = token_id /\ i.STATUS = "USED"}
    IN  (IF av = {} THEN <<>> ELSE <<CHOOSE i \in av : TRUE>>)
        \o (IF us = {} THEN <<>> ELSE <<CHOOSE i \in us : TRUE>>)

PutItem(tbl, item) ==
    {i \in tbl : ~(i.TOKEN_ID = item.TOKEN_ID /\ i.STATUS = item.STATUS)} \cup {item}

DeleteItem(tbl, token_id, status) ==
    {i \in tbl : ~(i.TOKEN_ID = token_id /\ i.STATUS = status)}

\* ------------------------------------------------- DatabaseService reads
validate_token_unused(tbl, token_id) ==
    \E i \in tbl : i.TOKEN_ID = token_id /\ i.STATUS # "USED"

validate_token(tbl, token_id) == Len(Query(tbl, token_id)) > 0

get_token_data_expiry_inclusive(tbl, t, token_id) ==
    LET items == Query(tbl, token_id)
    IN  IF items = <<>> THEN NoItem
        ELSE LET item == items[1]
             IN  IF item.TTL <= t THEN NoItem
                 ELSE IF item.STATUS = "USED" THEN NoItem
                 ELSE item

get_token_data_any_status(tbl, t, token_id) ==
    LET items == Query(tbl, token_id)
    IN  IF items = <<>> THEN NoItem
        ELSE LET item == items[1]
             IN  IF item.TTL < t THEN NoItem ELSE item

get_token_data(tbl, t, token_id) ==
    LET items == Query(tbl, token_id)
    IN  IF items = <<>> THEN NoItem
        ELSE LET item == items[1]
             IN  IF item.TTL < t THEN NoItem
                 ELSE IF item.STATUS = "USED" THEN NoItem
                 ELSE item

\* ------------------------------------------------------------- returns
Idle == [pc |-> "idle", tok |-> "", token_data |-> NoItem, old_status |-> "",
         from_dec |-> FALSE]

\* A returned value: `some` is FALSE for None / False, `val` the integer.
Ret(op, tok, some, val) == [op |-> op, tok |-> tok, some |-> some, val |-> val]

NoResponse ==
    [endpoint |-> "", token |-> "", blank |-> FALSE, known |-> FALSE,
     expired |-> FALSE, used |-> FALSE, http |-> 0, agent |-> "not_called",
     statement |-> "", request_count |-> [some |-> FALSE, val |-> 0],
     model_calls |-> 0, search_calls |-> 0]

\* a key the state dict does not hold: state.get(key) is None
Unset == "<unset>"

NoState ==
    [prompt |-> "", role |-> "", should_search |-> FALSE, search_results |-> "",
     summary |-> "", final_statement |-> "", decision_reasoning |-> <<>>,
     search_query |-> Unset]

\* model: calls of self.llm.invoke; temperatures: the temperatures the adapter
\* made them with; decision_response: what the decision call returned
NoCalls ==
    [model |-> 0, model_errors |-> 0, search |-> 0, search_errors |-> 0,
     temperatures |-> {}, decision_response |-> <<>>]

ServiceTemperature == 7      \* DebateAgentService.__init__: 0.7, in tenths

\* DebateAgentService.__init__ lines 115-116: self.temperature, and the
\* adapter self.llm created with it
NewService == [temperature |-> ServiceTemperature, llm_temperature |-> ServiceTemperature]

NoResult == [some |-> FALSE, val |-> ""]

NoRace == [tok |-> "", read |-> 0, raced |-> FALSE, returned |-> FALSE, val |-> 0]

NoJudge == [text |-> <<>>, kind |-> "", object |-> "", raw |-> <<>>]

\* ConfigService before the process read its environment and before the
\* first ConfigService() call (cls._instance is None)
NoEnv == <<>>

NoProfile == [provider |-> "", model |-> <<>>, api_key |-> <<>>]

NoConfig ==
    [initialized |-> FALSE, temperature |-> 0, num_rounds |-> 0,
     providers |-> <<>>, role_provider |-> [r \in {} |-> 0]]

NoConfigResult ==
    [op |-> "", role |-> "", id |-> 0, some |-> FALSE, val |-> 0, raised |-> FALSE,
     http |-> 0, profile |-> NoProfile, adapter |-> ""]

Init ==
    /\ store = {}
    /\ now = 0
    /\ issued = [t \in Tokens |-> NoItem]
    /\ call = [p \in Procs |-> Idle]
    /\ ret = Ret("none", "", FALSE, 0)
    /\ ndec = [t \in Tokens |-> 0]
    /\ exhausted = [t \in Tokens |-> FALSE]
    /\ resp = NoResponse
    /\ nreq = [t \in Tokens |-> 0]
    /\ served = [t \in Tokens |-> 0]
    /\ wpc = "idle"
    /\ gstate = NoState
    /\ wtrace = <<>>
    /\ wcalls = NoCalls
    /\ wresult = NoResult
    /\ svc = NewService
    /\ race = [p \in Procs |-> NoRace]
    /\ judge = NoJudge
    /\ env = NoEnv
    /\ cfg = NoConfig
    /\ cresp = NoConfigResult
    /\ agents = {}

\* time.time() advances
Tick ==
    /\ now < MaxTime
    /\ now' = now + 1
    /\ UNCHANGED <<store, issued, call, ret, exhausted>>

\* TokenService.generate_available_token: a fresh id, STATUS AVAILABLE,
\* TTL = now + ttl_hours; the item is put by DatabaseService.create_token.
generate_available_token(t, n, ttl_hours) ==
    /\ issued[t] = NoItem
    /\ LET token_data ==
            [TOKEN_ID |-> t, STATUS |-> "AVAILABLE", PAYMENT_ID |-> "pay",
             EMAIL |-> "mail", CREATED_AT |-> now, TTL |-> now + ttl_hours,
             REQUEST_COUNT |-> n]
       IN  /\ store' = PutItem(store, token_data)
           /\ issued' = [issued EXCEPT ![t] = token_data]
    /\ UNCHANGED <<now, call, ret, exhausted>>

\* DatabaseService.create_token(token_id, data) lines 114-130, called with an
\* AVAILABLE item for a token the store does not hold yet; REQUEST_COUNT is
\* whatever the caller passes, 0 included
create_token(t, n, ttl_hours) ==
    /\ issued[t] = NoItem
    /\ LET item ==
            [TOKEN_ID |-> t, STATUS |-> "AVAILABLE", PAYMENT_ID |-> "pay",
             EMAIL |-> "mail", CREATED_AT |-> now, TTL |-> now + ttl_hours,
             REQUEST_COUNT |-> n]
       IN  /\ store' = PutItem(store, item)
           /\ issued' = [issued EXCEPT ![t] = item]
    /\ UNCHANGED <<now, call, ret, exhausted>>

\* ---------------------------------------------- decrement_request_count
\* token_data after lines 169-173: the count lowered, STATUS USED at 0.
DecrementedTwice(token_data) ==
    LET new_count == token_data.REQUEST_COUNT - 2
        d1 == [token_data EXCEPT !.REQUEST_COUNT = new_count]
    IN  IF new_count <= 0 THEN [d1 EXCEPT !.STATUS = "USED"] ELSE d1

DecrementedRestamped(token_data) ==
    LET new_count == token_data.REQUEST_COUNT - 1
        d1 == [token_data EXCEPT !.REQUEST_COUNT = new_count, !.TTL = @ + 1]
    IN  IF new_count <= 0 THEN [d1 EXCEPT !.STATUS = "USED"] ELSE d1

DecrementedLate(token_data) ==
    LET new_count == token_data.REQUEST_COUNT - 1
        d1 == [token_data EXCEPT !.REQUEST_COUNT = new_count]
    IN  IF new_count < 0 THEN [d1 EXCEPT !.STATUS = "USED"] ELSE d1

Decremented(token_data) ==
    LET new_count == token_data.REQUEST_COUNT - 1
        d1 == [token_data EXCEPT !.REQUEST_COUNT = new_count]
    IN  IF new_count <= 0 THEN [d1 EXCEPT !.STATUS = "USED"] ELSE d1

\* lines 159-178: the read, the early returns and the new token_data.
DecrementCall(p, t) ==
    /\ call[p].pc = "idle"
    /\ LET token_data == get_token_data(store, now, t)
       IN  IF token_data = NoItem
           THEN /\ ret' = Ret("decrement", t, FALSE, 0)
                /\ UNCHANGED call
           ELSE IF token_data.REQUEST_COUNT <= 0
           THEN /\ call' = [call EXCEPT ![p] =
                        [pc |-> "mark_get", tok |-> t, token_data |-> NoItem,
                         old_status |-> "", from_dec |-> TRUE]]
                /\ UNCHANGED ret
           ELSE LET d == Decremented(token_data)
                IN  /\ call' = [call EXCEPT ![p] =
                            [pc |-> IF token_data.STATUS # d.STATUS
                                    THEN "dec_delete" ELSE "dec_put",
                             tok |-> t, token_data |-> d,
                             old_status |-> token_data.STATUS,
                             from_dec |-> FALSE]]
                    /\ UNCHANGED ret
    /\ UNCHANGED <<store, now, issued, exhausted>>

\* lines 178-182: delete_item of the old key; an exception is only logged.
DecDelete(p, ok) ==
    /\ call[p].pc = "dec_delete"
    /\ store' = IF ok THEN DeleteItem(store, call[p].tok, call[p].old_status)
                ELSE store
    /\ call' = [call EXCEPT ![p].pc = "dec_put"]
    /\ UNCHANGED <<now, issued, ret, exhausted>>

\* lines 184-186: create_token puts the item; new_count, or None when it fails.
DecPut(p, ok) ==
    /\ call[p].pc = "dec_put"
    /\ LET d == call[p].token_data
           t == call[p].tok
       IN  /\ store' = IF ok THEN PutItem(store, d) ELSE store
           /\ ret' = Ret("decrement", t, ok, IF ok THEN d.REQUEST_COUNT ELSE 0)
           /\ exhausted' = [exhausted EXCEPT ![t] =
                               @ \/ (ok /\ d.REQUEST_COUNT = 0 /\ d.STATUS = "USED")]
    /\ call' = [call EXCEPT ![p] = Idle]
    /\ UNCHANGED <<now, issued>>

\* --------------------------------------------------- mark_token_as_used
MarkCall(p, t) ==
    /\ call[p].pc = "idle"
    /\ call' = [call EXCEPT ![p] =
            [pc |-> "mark_get", tok |-> t, token_data |-> NoItem,
             old_status |-> "", from_dec |-> FALSE]]
    /\ UNCHANGED <<store, now, issued, ret, exhausted>>

\* What the caller sees once mark_token_as_used returned `some`:
\* decrement_request_count ignores it and returns 0 (lines 166-167).
MarkReturn(p, some) ==
    IF call[p].from_dec
    THEN ret' = Ret("decrement", call[p].tok, TRUE, 0)
    ELSE ret' = Ret("mark", call[p].tok, some, 0)

\* lines 136-144
MarkGet(p) ==
    /\ call[p].pc = "mark_get"
    /\ LET token_data == get_token_data(store, now, call[p].tok)
       IN  IF token_data = NoItem
           THEN /\ MarkReturn(p, FALSE)
                /\ call' = [call EXCEPT ![p] = Idle]
           ELSE IF token_data.STATUS = "USED"
           THEN /\ MarkReturn(p, TRUE)
                /\ call' = [call EXCEPT ![p] = Idle]
           ELSE /\ call' = [call EXCEPT ![p].pc = "mark_delete",
                                        ![p].token_data =
                                            [token_data EXCEPT !.STATUS = "USED"],
                                        ![p].old_status = token_data.STATUS]
                /\ UNCHANGED ret
    /\ UNCHANGED <<store, now, issued, exhausted>>

\* lines 146-150
MarkDelete(p, ok) ==
    /\ call[p].pc = "mark_delete"
    /\ store' = IF ok THEN DeleteItem(store, call[p].tok, call[p].old_status)
                ELSE store
    /\ call' = [call EXCEPT ![p].pc = "mark_put"]
    /\ UNCHANGED <<now, issued, ret, exhausted>>

\* line 152
MarkPut(p, ok) ==
    /\ call[p].pc = "mark_put"
    /\ store' = IF ok THEN PutItem(store, call[p].token_data) ELSE store
    /\ MarkReturn(p, ok)
    /\ call' = [call EXCEPT ![p] = Idle]
    /\ UNCHANGED <<now, issued, exhausted>>

\* ------------------------------------------------------ direct lookups
GetCall(t) ==
    /\ ret' = Ret("get", t, get_token_data(store, now, t) # NoItem, 0)
    /\ UNCHANGED <<store, now, issued, call, exhausted>>

\* validate_token lines 54-69: with the table missing (line 54) or the query
\* raising (lines 64-69) the answer is False
ValidateCall(t, reachable) ==
    /\ ret' = IF reachable THEN Ret("validate", t, validate_token(store, t), 0)
               ELSE Ret("validate_unreachable", t, FALSE, 0)
    /\ UNCHANGED <<store, now, issued, call, exhausted>>

\* decrement_request_count as one step, every store call succeeding: the
\* table after lines 159-186
decrement_request_count(tbl, t, token_id) ==
    LET token_data == get_token_data(tbl, t, token_id)
    IN  IF token_data = NoItem THEN tbl
        ELSE IF token_data.REQUEST_COUNT <= 0
        THEN PutItem(DeleteItem(tbl, token_id, token_data.STATUS),
                     [token_data EXCEPT !.STATUS = "USED"])
        ELSE LET d == Decremented(token_data)
             IN  PutItem(IF d.STATUS # token_data.STATUS
                         THEN DeleteItem(tbl, token_id, token_data.STATUS) ELSE tbl, d)

\* ------------------------------------------------------ agent operations
\* DebateAgentService.__init__(self, user_role) takes no other keyword.
InitParams == {"user_role"}

NoCount == [some |-> FALSE, val |-> 0]

\* The body of an agent operation's try block (affirmative_agent.py:141-149):
\* construct DebateAgentService with the keywords kws, run the workflow and
\* unpack its return value into (statement, request_count).  The constructor
\* raises TypeError on any keyword outside InitParams, before a model call;
\* run_workflow returns final_statement alone (a str), so the unpacking
\* raises ValueError after the workflow made its model calls.  decrements is
\* the number of decrement_request_count calls the attempt makes: none, as
\* run_workflow never calls the store and LLMService.call_llm is not called.
TryGenerateTokenAware(kws) ==
    [exc |-> "", statement |-> "generated", request_count |-> NoCount,
     model_calls |-> 2, search_calls |-> 0, decrements |-> 0]

\* an attempt that decrements the token before it constructs the service
TryGenerateChargingFirst(kws) ==
    IF ~(kws \subseteq InitParams)
    THEN [exc |-> "TypeError", statement |-> "", request_count |-> NoCount,
          model_calls |-> 0, search_calls |-> 0, decrements |-> 1]
    ELSE [exc |-> "ValueError", statement |-> "", request_count |-> NoCount,
          model_calls |-> 2, search_calls |-> 0, decrements |-> 1]

TryGenerate(kws) ==
    IF ~(kws \subseteq InitParams)
    THEN [exc |-> "TypeError", statement |-> "", request_count |-> NoCount,
          model_calls |-> 0, search_calls |-> 0, decrements |-> 0]
    ELSE [exc |-> "ValueError", statement |-> "", request_count |-> NoCount,
          model_calls |-> 2, search_calls |-> 0, decrements |-> 0]

Blank(text) == text \in {"", " "}      \* not text or not text.strip()

\* What an agent operation hands its caller: kind "warning" (validation
\* message), "error" (formatted error string), "generated" or "raised";
\* arity is the length of the tuple returned.
AgentResult(kind, arity, t) ==
    [kind |-> kind, arity |-> arity, statement |-> t.statement,
     request_count |-> t.request_count, model_calls |-> t.model_calls,
     search_calls |-> t.search_calls, decrements |-> t.decrements]

NotTried ==
    [exc |-> "", statement |-> "", request_count |-> NoCount,
     model_calls |-> 0, search_calls |-> 0, decrements |-> 0]

\* generate_topics_from_input: the except clause re-raises.
generate_topics_from_input(topic) ==
    IF Blank(topic) THEN AgentResult("warning", 3, NotTried)
    ELSE LET t == TryGenerate({"user_role", "provider_id", "token_id"})
         IN  IF t.exc # "" THEN AgentResult("raised", 0, t)
             ELSE AgentResult("generated", 2, t)

\* generate_affirmative_statement / generate_negative_statement
generate_statement(topic) ==
    IF Blank(topic) THEN AgentResult("warning", 2, NotTried)
    ELSE LET t == TryGenerate({"user_role", "provider_id", "token_id"})
         IN  IF t.exc # "" THEN AgentResult("error", 3, t)
             ELSE AgentResult("generated", 3, t)

generate_rebuttal(topic, opponent_argument) ==
    IF Blank(topic) \/ Blank(opponent_argument)
    THEN AgentResult("warning", 2, NotTried)
    ELSE LET t == TryGenerate({"user_role", "token_id"})
         IN  IF t.exc # "" THEN AgentResult("error", 3, t)
             ELSE AgentResult("generated", 3, t)

generate_closing_argument(topic, team_statements) ==
    IF Blank(topic) \/ team_statements = <<>>
    THEN AgentResult("warning", 2, NotTried)
    ELSE LET t == TryGenerate({"user_role", "provider_id", "token_id"})
         IN  IF t.exc # "" THEN AgentResult("error", 3, t)
             ELSE AgentResult("generated", 3, t)

\* RefereeAgent.judge_debate: no check of the topic; the except clause calls
\* json.dumps, and referee_agent.py imports no json: NameError.
judge_debate(topic) ==
    LET t == TryGenerate({"user_role", "provider_id", "token_id"})
    IN  IF t.exc # "" THEN AgentResult("raised", 0, t)
        ELSE AgentResult("generated", 2, t)

AgentCall(endpoint, topic, opponent_argument, team_statements) ==
    CASE endpoint = "topics" -> generate_topics_from_input(topic)
      [] endpoint = "statement" -> generate_statement(topic)
      [] endpoint = "rebuttal" -> generate_rebuttal(topic, opponent_argument)
      [] endpoint = "closing" -> generate_closing_argument(topic, team_statements)
      [] endpoint = "judge" -> judge_debate(topic)

\* ------------------------------------------------------------ REST layer
Endpoints == {"topics", "statement", "rebuttal", "closing", "judge"}

\* the number of names the endpoint unpacks the agent's tuple into
Unpacks(endpoint) == IF endpoint \in {"topics", "judge"} THEN 2 ELSE 3

\* validate_access_token lines 159-163: the body's token, else the header's
ResolveToken(token, authorization) ==
    IF token = "" /\ authorization.id # "" THEN authorization.id ELSE token

\* validate_access_token lines 165-172: TRUE when HTTPException(401) is raised
Unauthorized(tbl, token) ==
    IF token = "" THEN TRUE
    ELSE ~validate_token(tbl, token)

Cap(f, t) == [f EXCEPT ![t] = IF @ <= MaxCount THEN @ + 1 ELSE @]

\* One POST to a generation endpoint, from the request model to the response.
RestRequest(endpoint, body_token, authorization, topic, opponent_argument, team_statements) ==
    LET token == ResolveToken(body_token, authorization)
        items == {i \in store : i.TOKEN_ID = token}
        facts == [endpoint |-> endpoint, token |-> token, blank |-> Blank(topic),
                  known |-> items # {},
                  expired |-> \E i \in items : i.TTL < now,
                  used |-> items # {} /\ \A i \in items : i.STATUS = "USED"]
        Answer(http, agent, a) ==
            [endpoint |-> facts.endpoint, token |-> facts.token,
             blank |-> facts.blank, known |-> facts.known,
             expired |-> facts.expired, used |-> facts.used,
             http |-> http, agent |-> agent, statement |-> a.statement,
             request_count |-> a.request_count, model_calls |-> a.model_calls,
             search_calls |-> a.search_calls]
    IN  \* TopicRequest.topic has min_length=1: FastAPI answers 422 itself
        IF endpoint = "topics" /\ topic = ""
        THEN /\ resp' = Answer(422, "not_called", NotTried)
             /\ UNCHANGED <<store, nreq, served>>
        ELSE IF Unauthorized(store, token)
        THEN /\ resp' = Answer(401, "not_called", NotTried)
             /\ nreq' = IF token \in Tokens THEN Cap(nreq, token) ELSE nreq
             /\ UNCHANGED <<store, served>>
        ELSE LET a == AgentCall(endpoint, topic, opponent_argument, team_statements)
                 done == a.kind # "raised" /\ a.arity = Unpacks(endpoint)
             IN  /\ resp' = Answer(IF done THEN 200 ELSE 500, a.kind,
                                   IF done THEN a
                                   ELSE [a EXCEPT !.statement = "",
                                                  !.request_count = NoCount])
                 /\ nreq' = IF token \in Tokens THEN Cap(nreq, token) ELSE nreq
                 /\ served' = IF token \in Tokens /\ done /\ a.kind = "generated"
                              THEN Cap(served, token) ELSE served
                 /\ store' = IF a.decrements > 0
                              THEN decrement_request_count(store, now, token)
                              ELSE store

\* The requests clients send: the token in the body, in a Bearer header, in
\* a bare header or nowhere; an id that was never issued; an empty, a
\* whitespace-only or a real topic.
NoHeader == [scheme |-> "", id |-> ""]

Credentials ==
    {[body_token |-> "", authorization |-> NoHeader]}
    \cup {[body_token |-> t, authorization |-> NoHeader] : t \in Tokens}
    \cup {[body_token |-> "", authorization |-> [scheme |-> "Bearer", id |-> t]] :
             t \in Tokens}
    \cup {[body_token |-> "", authorization |-> [scheme |-> "raw", id |-> "bogus"]]}

Requests ==
    [endpoint : Endpoints, cred : Credentials, topic : {" ", "topic"},
     opponent_argument : {"argument"}, team_statements : {<<"statement">>}]
    \cup [endpoint : {"topics"}, cred : Credentials, topic : {""},
          opponent_argument : {"argument"}, team_statements : {<<"statement">>}]
    \cup [endpoint : {"rebuttal"}, cred : Credentials, topic : {"topic"},
          opponent_argument : {""}, team_statements : {<<"statement">>}]
    \cup [endpoint : {"closing"}, cred : Credentials, topic : {"topic"},
          opponent_argument : {"argument"}, team_statements : {<<>>}]

\* --------------------------------------------------- generation workflow
\* The content of a model response is a sequence of pieces: an opening
\* fence or none, a body, a closing fence or none.  The decision prompt asks
\* for a JSON object; the model may answer anything.  "<fence>" stands for the
\* three backquotes of a Markdown code fence.
OpenFences == {"<fence>json", "<fence>", "<fence>text"}

ObjectBodies ==
    {"{\"should_search\": true, \"search_query\": \"q\", \"reasoning\": \"r\"}",
     "{\"should_search\": false, \"search_query\": \"\", \"reasoning\": \"r\"}",
     "{\"should_search\": true}",
     "{}"}

Bodies == ObjectBodies \cup {"[true]", "TRUE, a search is needed", "no search"}

\* json.loads of a body that is a JSON object
json_loads(text) ==
    CASE text = "{\"should_search\": true, \"search_query\": \"q\", \"reasoning\": \"r\"}"
            -> [should_search |-> TRUE, search_query |-> "q", reasoning |-> "r"]
      [] text = "{\"should_search\": false, \"search_query\": \"\", \"reasoning\": \"r\"}"
            -> [should_search |-> FALSE, search_query |-> "", reasoning |-> "r"]
      [] text = "{\"should_search\": true}" -> [should_search |-> TRUE]
      [] text = "{}" -> <<>>

\* dict.get(key, default)
DictGet(d, key, default) == IF key \in DOMAIN d THEN d[key] ELSE default

\* "true" in piece.lower()
ContainsTrue(piece) ==
    piece \in {"{\"should_search\": true, \"search_query\": \"q\", \"reasoning\": \"r\"}",
               "{\"should_search\": true}", "[true]", "TRUE, a search is needed"}

DecisionContents ==
    {SelectSeq(<<o, b, c>>, LAMBDA x : x # "") :
        o \in OpenFences \cup {""}, b \in Bodies, c \in {"", "<fence>"}}

\* decision_node lines 168-175: content[7:] after an opening fence followed by
\* json, content[3:] after any other opening fence, content[:-3] before a
\* closing fence
StripFences(content) ==
    LET c1 == IF content[1] = "<fence>json" THEN Tail(content) ELSE content
        c2 == IF c1[1] = "<fence>" THEN Tail(c1)
              ELSE IF c1[1] = "<fence>text" THEN <<"text">> \o Tail(c1)
              ELSE c1
    IN  IF c2[Len(c2)] = "<fence>" THEN SubSeq(c2, 1, Len(c2) - 1) ELSE c2

\* the fallback of line 183 without .lower()
ParseDecisionCaseSensitive(content) ==
    LET c == StripFences(content)
    IN  IF Len(c) = 1 /\ c[1] \in ObjectBodies
        THEN LET decision_data == json_loads(c[1])
             IN  [should_search |-> DictGet(decision_data, "should_search", FALSE),
                  search_query |-> DictGet(decision_data, "search_query", ""),
                  decision_reasoning |->
                      <<DictGet(decision_data, "reasoning", "No reasoning provided")>>]
        ELSE [should_search |->
                  \E i \in 1..Len(content) :
                      ContainsTrue(content[i]) /\ content[i] # "TRUE, a search is needed",
              search_query |-> "",
              decision_reasoning |-> content]

\* decision_node lines 166-185: the try block, and the bare except that
\* also catches the AttributeError of .get on a JSON value that is no object
ParseDecision(content) ==
    LET c == StripFences(content)
    IN  IF Len(c) = 1 /\ c[1] \in ObjectBodies
        THEN LET decision_data == json_loads(c[1])
             IN  [should_search |-> DictGet(decision_data, "should_search", FALSE),
                  search_query |-> DictGet(decision_data, "search_query", ""),
                  decision_reasoning |->
                      <<DictGet(decision_data, "reasoning", "No reasoning provided")>>]
        ELSE [should_search |-> \E i \in 1..Len(content) : ContainsTrue(content[i]),
              search_query |-> "",
              decision_reasoning |-> content]

Prompts == {"prompt A", "prompt B"}
Temperatures == {7, 15}      \* 0.7 and 1.5, in tenths
Roles == {"affirmative", "negative", "referee"}

\* line 411 stores the temperature in self.temperature; self.llm stays the
\* adapter __init__ created
run_workflow(prompt, role, temperature) ==
    /\ wpc \in {"idle", "done", "raised"}
    /\ svc' = [svc EXCEPT !.temperature = temperature]
    /\ gstate' = [prompt |-> prompt, role |-> role, should_search |-> FALSE,
                  search_results |-> "", summary |-> "", final_statement |-> "",
                  decision_reasoning |-> <<>>, search_query |-> Unset]
    /\ wtrace' = <<>>
    /\ wcalls' = NoCalls
    /\ wresult' = NoResult
    /\ wpc' = "decision"

route_swapped(state) ==
    IF state.should_search THEN "skip_search" ELSE "search"

route_after_decision(state) ==
    IF state.should_search THEN "search" ELSE "skip_search"

\* raises: self.llm.invoke raised, which leaves the node and app.invoke
decision_node(raises, content) ==
    /\ wpc = "decision"
    /\ wtrace' = Append(wtrace, "decision")
    /\ wcalls' = [wcalls EXCEPT !.model = @ + 1,
                                !.model_errors = IF raises THEN @ + 1 ELSE @,
                                !.temperatures = @ \cup {svc.llm_temperature},
                                !.decision_response = IF raises THEN @ ELSE content]
    /\ IF raises
       THEN /\ wpc' = "raised"
            /\ UNCHANGED gstate
       ELSE LET d == ParseDecision(content)
            IN  /\ gstate' = [gstate EXCEPT !.should_search = d.should_search,
                                            !.search_query = d.search_query,
                                            !.decision_reasoning = d.decision_reasoning]
                /\ wpc' = route_after_decision(gstate')
    /\ UNCHANGED <<wresult, svc>>

SearchError == "Error during search: e"

search_uncaught(outcome) ==
    CASE outcome = "raises" -> [raised |-> TRUE, search_results |-> ""]
      [] outcome = "empty" -> [raised |-> FALSE, search_results |-> "No search results found."]
      [] outcome = "results" -> [raised |-> FALSE, search_results |-> "1. title URL Summary"]

\* search_node lines 207-231: the try block and its except clause
search_try(outcome) ==
    CASE outcome = "raises" -> [raised |-> FALSE, search_results |-> SearchError]
      [] outcome = "empty" -> [raised |-> FALSE, search_results |-> "No search results found."]
      [] outcome = "results" -> [raised |-> FALSE, search_results |-> "1. title URL Summary"]

search_node(outcome) ==
    /\ wpc = "search"
    /\ wtrace' = Append(wtrace, "search")
    /\ wcalls' = [wcalls EXCEPT !.search = @ + 1,
                                !.search_errors = IF outcome = "raises" THEN @ + 1 ELSE @]
    /\ LET r == search_try(outcome)
       IN  IF r.raised
           THEN /\ wpc' = "raised"
                /\ UNCHANGED gstate
           ELSE /\ gstate' = [gstate EXCEPT !.search_results = r.search_results]
                /\ wpc' = "summarize"
    /\ UNCHANGED <<wresult, svc>>

summarize_node_swallowing(raises, text) ==
    /\ wpc = "summarize"
    /\ wtrace' = Append(wtrace, "summarize")
    /\ wcalls' = [wcalls EXCEPT !.model = @ + 1,
                                !.model_errors = IF raises THEN @ + 1 ELSE @,
                                !.temperatures = @ \cup {svc.llm_temperature}]
    /\ gstate' = [gstate EXCEPT !.summary = IF raises THEN "" ELSE text]
    /\ wpc' = "generate"
    /\ UNCHANGED <<wresult, svc>>

\* summarize calling the model a second time
summarize_node_twice(raises, text) ==
    /\ wpc = "summarize"
    /\ wtrace' = Append(wtrace, "summarize")
    /\ wcalls' = [wcalls EXCEPT !.model = @ + 2,
                                !.model_errors = IF raises THEN @ + 1 ELSE @,
                                !.temperatures = @ \cup {svc.llm_temperature}]
    /\ IF raises
       THEN /\ wpc' = "raised"
            /\ UNCHANGED gstate
       ELSE /\ gstate' = [gstate EXCEPT !.summary = text]
            /\ wpc' = "generate"
    /\ UNCHANGED <<wresult, svc>>

summarize_node(raises, text) ==
    /\ wpc = "summarize"
    /\ wtrace' = Append(wtrace, "summarize")
    /\ wcalls' = [wcalls EXCEPT !.model = @ + 1,
                                !.model_errors = IF raises THEN @ + 1 ELSE @,
                                !.temperatures = @ \cup {svc.llm_temperature}]
    /\ IF raises
       THEN /\ wpc' = "raised"
            /\ UNCHANGED gstate
       ELSE /\ gstate' = [gstate EXCEPT !.summary = text]
            /\ wpc' = "generate"
    /\ UNCHANGED <<wresult, svc>>

skip_search_node_clearing ==
    /\ wpc = "skip_search"
    /\ wtrace' = Append(wtrace, "skip_search")
    /\ gstate' = [gstate EXCEPT !.search_results = "No search performed",
                                !.summary = "No search was needed for this prompt",
                                !.decision_reasoning = <<>>]
    /\ wpc' = "generate"
    /\ UNCHANGED <<wcalls, wresult, svc>>

skip_search_node ==
    /\ wpc = "skip_search"
    /\ wtrace' = Append(wtrace, "skip_search")
    /\ gstate' = [gstate EXCEPT !.search_results = "No search performed",
                                !.summary = "No search was needed for this prompt"]
    /\ wpc' = "generate"
    /\ UNCHANGED <<wcalls, wresult, svc>>

\* generate without its edge to END
generate_statement_node_no_edge(raises, text) ==
    /\ wpc = "generate"
    /\ wtrace' = Append(wtrace, "generate")
    /\ wcalls' = [wcalls EXCEPT !.model = @ + 1,
                                !.model_errors = IF raises THEN @ + 1 ELSE @,
                                !.temperatures = @ \cup {svc.llm_temperature}]
    /\ IF raises
       THEN /\ wpc' = "raised"
            /\ UNCHANGED gstate
       ELSE /\ gstate' = [gstate EXCEPT !.final_statement = text]
            /\ wpc' = "no_edge"
    /\ UNCHANGED <<wresult, svc>>

generate_statement_node(raises, text) ==
    /\ wpc = "generate"
    /\ wtrace' = Append(wtrace, "generate")
    /\ wcalls' = [wcalls EXCEPT !.model = @ + 1,
                                !.model_errors = IF raises THEN @ + 1 ELSE @,
                                !.temperatures = @ \cup {svc.llm_temperature}]
    /\ IF raises
       THEN /\ wpc' = "raised"
            /\ UNCHANGED gstate
       ELSE /\ gstate' = [gstate EXCEPT !.final_statement = text]
            /\ wpc' = "end"
    /\ UNCHANGED <<wresult, svc>>

\* run_workflow line 452, after app.invoke reached END
run_workflow_return ==
    /\ wpc = "end"
    /\ wresult' = [some |-> TRUE, val |-> gstate.final_statement]
    /\ wpc' = "done"
    /\ UNCHANGED <<gstate, wtrace, wcalls, svc>>

\* ----------------------------------------------------------- ConfigService
MaxEnv == 3                  \* PROVIDER1 .. PROVIDER<MaxEnv> may be set
DefaultTemperature == 7      \* DebateConfig.temperature 0.7, in tenths
DefaultRounds == 3           \* DebateConfig.num_rounds

\* one index of the environment: PROVIDER<i> ("" when unset) and whether an
\* API key variable with suffix <i> is set; MODEL<i> is named by its index
EnvSlots ==
    {[provider |-> "", api_key |-> FALSE]}
    \cup [provider : {"gemini"}, api_key : BOOLEAN]
    \cup {[provider |-> "anthropic", api_key |-> TRUE]}

Environments == [1..MaxEnv -> EnvSlots]

Profile(e, i) ==
    [provider |-> e[i].provider, model |-> <<"MODEL", i>>,
     api_key |-> IF e[i].api_key THEN <<"API_KEY", i>> ELSE <<>>]

\* __init__ lines 36-59: the scan stops at the first unset PROVIDER<i>;
\* line 58 concatenates api_key to a str after the profile is stored and
\* raises TypeError when it is None
RECURSIVE ScanFrom(_, _, _)
ScanFrom(e, i, providers) ==
    IF i > Len(e) \/ e[i].provider = ""
    THEN [providers |-> providers, raised |-> FALSE]
    ELSE LET stored == Append(providers, Profile(e, i))
         IN  IF ~e[i].api_key THEN [providers |-> stored, raised |-> TRUE]
             ELSE ScanFrom(e, i + 1, stored)

DefaultRoleProvider ==
    [r \in {"affirmative", "negative", "referee"} |->
        CASE r = "affirmative" -> 1 [] r = "negative" -> 2 [] r = "referee" -> 3]

ConstructedAlways(c, e) ==
    LET scan == ScanFrom(e, 1, <<>>)
    IN  [cfg |-> [initialized |-> TRUE, temperature |-> DefaultTemperature,
                  num_rounds |-> DefaultRounds, providers |-> scan.providers,
                  role_provider |-> DefaultRoleProvider],
         raised |-> scan.raised]

\* ConfigService(): __new__ hands out the one instance, __init__ returns at
\* once when it is initialized
Constructed(c, e) ==
    IF c.initialized THEN [cfg |-> c, raised |-> FALSE]
    ELSE LET scan == ScanFrom(e, 1, <<>>)
         IN  [cfg |-> [initialized |-> TRUE, temperature |-> DefaultTemperature,
                       num_rounds |-> DefaultRounds, providers |-> scan.providers,
                       role_provider |-> DefaultRoleProvider],
              raised |-> scan.raised]

Result(op) == [NoConfigResult EXCEPT !.op = op]

\* the process starts with some environment
Startup(e) ==
    /\ env = NoEnv
    /\ env' = e
    /\ UNCHANGED <<cfg, cresp, agents>>

ConfigService_new ==
    /\ env # NoEnv
    /\ LET r == Constructed(cfg, env)
       IN  /\ cfg' = r.cfg
           /\ cresp' = [Result("ConfigService") EXCEPT !.raised = r.raised]
    /\ UNCHANGED <<env, agents>>

set_role_provider(role, id) ==
    /\ cfg.initialized
    /\ cfg' = [cfg EXCEPT !.role_provider =
                  [r \in DOMAIN @ \cup {role} |-> IF r = role THEN id ELSE @[r]]]
    /\ cresp' = [Result("set_role_provider") EXCEPT !.role = role, !.id = id]
    /\ UNCHANGED <<env, agents>>

\* role_provider.get(role): None for a role without binding
role_provider_get(c, role) ==
    IF role \in DOMAIN c.role_provider
    THEN [some |-> TRUE, val |-> c.role_provider[role]]
    ELSE [some |-> FALSE, val |-> 0]

get_role_provider(role) ==
    /\ cfg.initialized
    /\ LET v == role_provider_get(cfg, role)
       IN  cresp' = [Result("get_role_provider") EXCEPT
                        !.role = role, !.some = v.some, !.val = v.val]
    /\ UNCHANGED <<env, cfg, agents>>

update_config(temperature) ==
    /\ cfg.initialized
    /\ cfg' = [cfg EXCEPT !.temperature = temperature]
    /\ cresp' = [Result("update_config") EXCEPT !.val = temperature]
    /\ UNCHANGED <<env, agents>>

reset_to_defaults ==
    /\ cfg.initialized
    /\ cfg' = [cfg EXCEPT !.temperature = DefaultTemperature,
                          !.num_rounds = DefaultRounds]
    /\ cresp' = Result("reset_to_defaults")
    /\ UNCHANGED <<env, agents>>

\* get_provider(provide_id): self.providers[provide_id], KeyError when the
\* id was not loaded (None, the value of an unbound role, is never loaded)
Loaded(c, v) == v.some /\ v.val \in DOMAIN c.providers

\* _create_llm: the adapter class the kind selects, case _ included
create_llm(provider) ==
    CASE provider = "gemini" -> "GeminiAdapter"
      [] provider = "deepseek" -> "DeepseekAdapter"
      [] OTHER -> "OpenAIAdapter"

\* DebateAgentService.__init__ lines 108-116 on the singleton c
AgentService(c, role) ==
    LET v == role_provider_get(c, role)
    IN  IF ~Loaded(c, v)
        THEN [raised |-> TRUE, some |-> v.some, id |-> v.val,
              profile |-> NoProfile, adapter |-> ""]
        ELSE LET adapter == create_llm(c.providers[v.val].provider)
             IN  [raised |-> FALSE, some |-> TRUE, id |-> v.val,
                  profile |-> c.providers[v.val], adapter |-> adapter]

\* DebateAgentService(user_role): line 107 constructs ConfigService first
DebateAgentService(role) ==
    /\ env # NoEnv
    /\ LET r == Constructed(cfg, env)
           a == AgentService(r.cfg, role)
       IN  /\ cfg' = r.cfg
           /\ cresp' = IF r.raised
                       THEN [Result("DebateAgentService") EXCEPT
                                !.role = role, !.raised = TRUE]
                       ELSE [Result("DebateAgentService") EXCEPT
                                !.role = role, !.raised = a.raised, !.some = a.some,
                                !.id = a.id, !.profile = a.profile,
                                !.adapter = a.adapter]
    /\ UNCHANGED <<env, agents>>

\* list_providers: iterating the dict yields its integer keys, and
\* provider["provider"] on an int raises TypeError; with no provider loaded
\* json.dumps raises NameError, json not being imported
list_providers(c) == [raised |-> TRUE, listing |-> <<>>]

AgentKeys == <<"affirmative", "negative", "referee">>

\* get_agents lines 65-69, from key k on: each agent constructs ConfigService
\* and its DebateAgentService; the first exception leaves _agents as filled
RECURSIVE FillAgents(_, _, _, _)
FillAgents(c, e, k, filled) ==
    IF k > Len(AgentKeys) THEN [cfg |-> c, agents |-> filled \cup {"config"}, raised |-> FALSE]
    ELSE LET r == Constructed(c, e)
         IN  IF r.raised \/ AgentService(r.cfg, AgentKeys[k]).raised
             THEN [cfg |-> r.cfg, agents |-> filled, raised |-> TRUE]
             ELSE FillAgents(r.cfg, e, k + 1, filled \cup {AgentKeys[k]})

\* get_agents(): fills _agents when it is empty, then reads its four keys
get_agents(c, e, filled) ==
    IF filled = {} THEN FillAgents(c, e, 1, {})
    ELSE [cfg |-> c, agents |-> filled,
          raised |-> filled # {"affirmative", "negative", "referee", "config"}]

\* GET /api/config/temperature
get_temperature ==
    /\ env # NoEnv
    /\ LET g == get_agents(cfg, env, agents)
       IN  /\ cfg' = g.cfg
           /\ agents' = g.agents
           /\ cresp' = IF g.raised
                       THEN [Result("get_temperature") EXCEPT !.raised = TRUE, !.http = 500]
                       ELSE [Result("get_temperature") EXCEPT
                                !.http = 200, !.val = g.cfg.temperature]
    /\ UNCHANGED env

\* line 495, 0.0 <= temperature <= 2.0, in tenths
InRange(temperature) == 0 <= temperature /\ temperature <= 20

\* POST /api/config/temperature: ConfigService has no set_temperature, so
\* line 497 raises AttributeError, which line 501 turns into HTTP 500
set_temperature(temperature) ==
    /\ env # NoEnv
    /\ LET g == get_agents(cfg, env, agents)
       IN  /\ cfg' = g.cfg
           /\ agents' = g.agents
           /\ cresp' = [Result("set_temperature") EXCEPT
                           !.val = temperature,
                           !.raised = g.raised,
                           !.http = IF g.raised THEN 500
                                    ELSE IF ~InRange(temperature) THEN 400
                                    ELSE 500]
    /\ UNCHANGED env

\* GET /api/config/providers
get_providers ==
    /\ env # NoEnv
    /\ LET g == get_agents(cfg, env, agents)
       IN  /\ cfg' = g.cfg
           /\ agents' = g.agents
           /\ cresp' = [Result("get_providers") EXCEPT
                           !.raised = g.raised,
                           !.http = IF g.raised \/ list_providers(g.cfg).raised
                                    THEN 500 ELSE 200]
    /\ UNCHANGED env

ConfigRoles == {"affirmative", "negative", "referee", "moderator"}
BindRoles == {"affirmative", "moderator"}
BindIds == {2, MaxEnv + 1}
UpdateTemperatures == {20}
PostedTemperatures == {-1, 0, 10, 20, 21}

\* ------------------------------------------------ judge-response parsing
\* debate_ui.on_judge lines 133-154, applied to a judge response.  A response
\* is a sequence of pieces: brace-free prose, a brace inside prose, or a
\* verdict object written with double or with single quotes; Verdict2 has an
\* apostrophe inside a string value.
MaxJudgeLen == 3

Verdict == "{\"winner\": \"negative\", \"reason\": \"x\"}"
VerdictSq == "{'winner': 'negative', 'reason': 'x'}"
Verdict2 == "{\"winner\": \"negative\", \"reason\": \"it's x\"}"
Verdict2Sq == "{'winner': 'negative', 'reason': 'it's x'}"
Verdict2Requoted == "{\"winner\": \"negative\", \"reason\": \"it\"s x\"}"

VerdictPieces == {Verdict, VerdictSq, Verdict2, Verdict2Sq, Verdict2Requoted}
Pieces == {"prose", "{", "}", Verdict, VerdictSq, Verdict2, Verdict2Sq}

JudgeResponses == UNION {[1..n -> Pieces] : n \in 1..MaxJudgeLen}

SetMin(S) == CHOOSE x \in S : \A y \in S : x <= y
SetMax(S) == CHOOSE x \in S : \A y \in S : x >= y

\* re.search(r'\{.*\}', text, re.DOTALL): from the first "{" to the last "}"
\* after it; without a match the whole text is parsed
re_search(text) ==
    LET opens == {i \in 1..Len(text) : text[i] = "{" \/ text[i] \in VerdictPieces}
    IN  IF opens = {} THEN text
        ELSE LET f == SetMin(opens)
                 closes == {i \in f..Len(text) :
                               \/ text[i] \in VerdictPieces
                               \/ text[i] = "}" /\ i > f}
             IN  IF closes = {} THEN text ELSE SubSeq(text, f, SetMax(closes))

\* json.loads: the object the text denotes, "" for JSONDecodeError
judge_json_loads(text) ==
    IF text = <<Verdict>> THEN "verdict"
    ELSE IF text = <<Verdict2>> THEN "verdict2"
    ELSE IF text = <<"{", "}">> THEN "empty object"
    ELSE ""

\* json_str.replace('\\"', '"').replace('\'', '"')
fix_quotes(text) ==
    [i \in 1..Len(text) |->
        CASE text[i] = VerdictSq -> Verdict
          [] text[i] = Verdict2Sq -> Verdict2Requoted
          [] text[i] = Verdict2 -> Verdict2Requoted
          [] OTHER -> text[i]]

parse_judge(text) ==
    LET json_str == re_search(text)
        first == judge_json_loads(json_str)
        second == judge_json_loads(fix_quotes(json_str))
    IN  IF first # "" THEN [text |-> text, kind |-> "object", object |-> first, raw |-> <<>>]
        ELSE IF second # ""
        THEN [text |-> text, kind |-> "object", object |-> second, raw |-> <<>>]
        ELSE [text |-> text, kind |-> "error", object |-> "", raw |-> text]

on_judge(text) ==
    /\ judge' = parse_judge(text)
    /\ UNCHANGED <<storeVars, ndec, restVars, wfVars, race, cfgVars>>

\* ------------------------------------------------------- specifications
\* The token store under concurrent callers; delete_item and put_item may
\* raise (ok = FALSE), which the code logs or turns into None / False.
Next ==
    \/ Tick /\ UNCHANGED <<ndec, restVars, wfVars, race, uiVars, cfgVars>>
    \/ \E t \in Tokens, n \in 1..MaxCount, h \in 1..MaxTtlHours :
           generate_available_token(t, n, h) /\ UNCHANGED <<ndec, restVars, wfVars, race, uiVars, cfgVars>>
    \/ \E p \in Procs, t \in Tokens : DecrementCall(p, t) /\ UNCHANGED <<ndec, restVars, wfVars, race, uiVars, cfgVars>>
    \/ \E p \in Procs, ok \in BOOLEAN : DecDelete(p, ok) /\ UNCHANGED <<ndec, restVars, wfVars, race, uiVars, cfgVars>>
    \/ \E p \in Procs, ok \in BOOLEAN : DecPut(p, ok) /\ UNCHANGED <<ndec, restVars, wfVars, race, uiVars, cfgVars>>
    \/ \E p \in Procs, t \in Tokens : MarkCall(p, t) /\ UNCHANGED <<ndec, restVars, wfVars, race, uiVars, cfgVars>>
    \/ \E p \in Procs : MarkGet(p) /\ UNCHANGED <<ndec, restVars, wfVars, race, uiVars, cfgVars>>
    \/ \E p \in Procs, ok \in BOOLEAN : MarkDelete(p, ok) /\ UNCHANGED <<ndec, restVars, wfVars, race, uiVars, cfgVars>>
    \/ \E p \in Procs, ok \in BOOLEAN : MarkPut(p, ok) /\ UNCHANGED <<ndec, restVars, wfVars, race, uiVars, cfgVars>>
    \/ \E t \in Tokens : GetCall(t) /\ UNCHANGED <<ndec, restVars, wfVars, race, uiVars, cfgVars>>
    \/ \E t \in Tokens, reachable \in BOOLEAN : ValidateCall(t, reachable) /\ UNCHANGED <<ndec, restVars, wfVars, race, uiVars, cfgVars>>

Spec == Init /\ [][Next]_vars

\* One caller, one call after another, no store failure; ndec counts the
\* calls on an issued token that returned.  A live token is issued with
\* REQUEST_COUNT >= 1, so line 166 (the call of mark_token_as_used) is not
\* reached here.
Bump(t) ==
    [ndec EXCEPT ![t] = IF issued[t] # NoItem /\ @ <= MaxCount THEN @ + 1 ELSE @]

NextSeq ==
    \/ Tick /\ UNCHANGED <<ndec, restVars, wfVars, race, uiVars, cfgVars>>
    \/ \E t \in Tokens, n \in 1..MaxCount, h \in 1..MaxTtlHours :
           generate_available_token(t, n, h) /\ UNCHANGED <<ndec, restVars, wfVars, race, uiVars, cfgVars>>
    \/ \E t \in Tokens :
           /\ DecrementCall("p1", t)
           /\ ndec' = IF call'["p1"].pc = "idle" THEN Bump(t) ELSE ndec
           /\ UNCHANGED <<restVars, wfVars, race, uiVars, cfgVars>>
    \/ DecDelete("p1", TRUE) /\ UNCHANGED <<ndec, restVars, wfVars, race, uiVars, cfgVars>>
    \/ DecPut("p1", TRUE) /\ ndec' = Bump(call["p1"].tok) /\ UNCHANGED <<restVars, wfVars, race, uiVars, cfgVars>>

SpecSeq == Init /\ [][NextSeq]_vars

\* One caller decrementing items that create_token put with any count, the
\* clock advancing between the steps, no store failure
NextZero ==
    \/ Tick /\ UNCHANGED <<ndec, restVars, wfVars, race, uiVars, cfgVars>>
    \/ \E t \in Tokens, n \in 0..MaxCount, h \in 1..MaxTtlHours : create_token(t, n, h) /\ UNCHANGED <<ndec, restVars, wfVars, race, uiVars, cfgVars>>
    \/ \E t \in Tokens : DecrementCall("p1", t) /\ UNCHANGED <<ndec, restVars, wfVars, race, uiVars, cfgVars>>
    \/ DecDelete("p1", TRUE) /\ UNCHANGED <<ndec, restVars, wfVars, race, uiVars, cfgVars>>
    \/ DecPut("p1", TRUE) /\ UNCHANGED <<ndec, restVars, wfVars, race, uiVars, cfgVars>>
    \/ MarkGet("p1") /\ UNCHANGED <<ndec, restVars, wfVars, race, uiVars, cfgVars>>
    \/ MarkDelete("p1", TRUE) /\ UNCHANGED <<ndec, restVars, wfVars, race, uiVars, cfgVars>>
    \/ MarkPut("p1", TRUE) /\ UNCHANGED <<ndec, restVars, wfVars, race, uiVars, cfgVars>>

SpecZero == Init /\ [][NextZero]_vars

\* REST generation requests against a store that one DatabaseService caller
\* decrements meanwhile.
NextRest ==
    \/ Tick /\ UNCHANGED <<ndec, restVars, wfVars, race, uiVars, cfgVars>>
    \/ \E t \in Tokens, n \in 1..MaxCount, h \in 1..MaxTtlHours :
           generate_available_token(t, n, h) /\ UNCHANGED <<ndec, restVars, wfVars, race, uiVars, cfgVars>>
    \/ \E t \in Tokens : DecrementCall("p1", t) /\ UNCHANGED <<ndec, restVars, wfVars, race, uiVars, cfgVars>>
    \/ DecDelete("p1", TRUE) /\ UNCHANGED <<ndec, restVars, wfVars, race, uiVars, cfgVars>>
    \/ DecPut("p1", TRUE) /\ UNCHANGED <<ndec, restVars, wfVars, race, uiVars, cfgVars>>
    \/ \E r \in Requests :
           /\ RestRequest(r.endpoint, r.cred.body_token, r.cred.authorization,
                          r.topic, r.opponent_argument, r.team_statements)
           /\ UNCHANGED <<now, issued, call, ret, exhausted, ndec, wfVars, race, uiVars, cfgVars>>

SpecRest == Init /\ [][NextRest]_vars

\* One DebateAgentService running workflows one after another; the model
\* answers anything or raises, the web search returns, finds nothing or raises.
NextWorkflow ==
    \/ \E prompt \in Prompts, role \in Roles, temperature \in Temperatures :
           run_workflow(prompt, role, temperature) /\ UNCHANGED <<storeVars, ndec, restVars, race, uiVars, cfgVars>>
    \/ \E raises \in BOOLEAN, content \in DecisionContents :
           decision_node(raises, content) /\ UNCHANGED <<storeVars, ndec, restVars, race, uiVars, cfgVars>>
    \/ \E outcome \in {"results", "empty", "raises"} :
           search_node(outcome) /\ UNCHANGED <<storeVars, ndec, restVars, race, uiVars, cfgVars>>
    \/ \E raises \in BOOLEAN, text \in {"summary"} :
           summarize_node(raises, text) /\ UNCHANGED <<storeVars, ndec, restVars, race, uiVars, cfgVars>>
    \/ skip_search_node /\ UNCHANGED <<storeVars, ndec, restVars, race, uiVars, cfgVars>>
    \/ \E raises \in BOOLEAN, text \in {"", "final statement"} :
           generate_statement_node(raises, text) /\ UNCHANGED <<storeVars, ndec, restVars, race, uiVars, cfgVars>>
    \/ run_workflow_return /\ UNCHANGED <<storeVars, ndec, restVars, race, uiVars, cfgVars>>

SpecWorkflow == Init /\ [][NextWorkflow]_vars

\* app.invoke runs the nodes of an invocation one after another until END or
\* an exception, and run_workflow then returns: a step of a started
\* invocation that can be taken is taken
InvocationStep ==
    /\ \/ \E raises \in BOOLEAN, content \in DecisionContents : decision_node(raises, content)
       \/ \E outcome \in {"results", "empty", "raises"} : search_node(outcome)
       \/ \E raises \in BOOLEAN, text \in {"summary"} : summarize_node(raises, text)
       \/ skip_search_node
       \/ \E raises \in BOOLEAN, text \in {"", "final statement"} : generate_statement_node(raises, text)
       \/ run_workflow_return
    /\ UNCHANGED <<storeVars, ndec, restVars, race, uiVars, cfgVars>>

SpecWorkflowLive == SpecWorkflow /\ WF_vars(InvocationStep)

\* Two callers decrementing at once, no store failure.  race is a ghost: a
\* call that read a live count records it, and is marked raced, together
\* with the other caller's call, when that one had read and not yet written.
InFlight(p, t) == call[p].pc \in {"dec_delete", "dec_put"} /\ call[p].tok = t

Raced(p, t) ==
    IF call'[p].pc = "idle" THEN [race EXCEPT ![p] = NoRace]
    ELSE LET others == {q \in Procs \ {p} : InFlight(q, t)}
         IN  [q \in Procs |->
                 IF q = p
                 THEN [tok |-> t, read |-> get_token_data(store, now, t).REQUEST_COUNT,
                       raced |-> others # {}, returned |-> FALSE, val |-> 0]
                 ELSE IF q \in others THEN [race[q] EXCEPT !.raced = TRUE]
                 ELSE race[q]]

NextRace ==
    \/ Tick /\ UNCHANGED <<ndec, restVars, wfVars, race, uiVars, cfgVars>>
    \/ \E t \in Tokens, n \in 1..MaxCount, h \in 1..MaxTtlHours :
           generate_available_token(t, n, h) /\ UNCHANGED <<ndec, restVars, wfVars, race, uiVars, cfgVars>>
    \/ \E p \in Procs, t \in Tokens :
           /\ DecrementCall(p, t)
           /\ race' = Raced(p, t)
           /\ UNCHANGED <<ndec, restVars, wfVars, uiVars, cfgVars>>
    \/ \E p \in Procs : DecDelete(p, TRUE) /\ UNCHANGED <<ndec, restVars, wfVars, race, uiVars, cfgVars>>
    \/ \E p \in Procs :
           /\ DecPut(p, TRUE)
           /\ race' = [race EXCEPT ![p].returned = TRUE, ![p].val = ret'.val]
           /\ UNCHANGED <<ndec, restVars, wfVars, uiVars, cfgVars>>

SpecRace == Init /\ [][NextRace]_vars

\* on_judge parsing one judge response after another
NextJudge == \E text \in JudgeResponses : on_judge(text)

SpecJudge == Init /\ [][NextJudge]_vars

\* the configuration service, the agents built on it and the configuration
\* endpoints, on one process
NextConfig ==
    \/ \E e \in Environments : Startup(e) /\ UNCHANGED <<storeVars, ndec, restVars, wfVars, race, uiVars>>
    \/ ConfigService_new /\ UNCHANGED <<storeVars, ndec, restVars, wfVars, race, uiVars>>
    \/ \E role \in BindRoles, id \in BindIds : set_role_provider(role, id) /\ UNCHANGED <<storeVars, ndec, restVars, wfVars, race, uiVars>>
    \/ \E role \in ConfigRoles : get_role_provider(role) /\ UNCHANGED <<storeVars, ndec, restVars, wfVars, race, uiVars>>
    \/ \E temperature \in UpdateTemperatures : update_config(temperature) /\ UNCHANGED <<storeVars, ndec, restVars, wfVars, race, uiVars>>
    \/ reset_to_defaults /\ UNCHANGED <<storeVars, ndec, restVars, wfVars, race, uiVars>>
    \/ \E role \in ConfigRoles : DebateAgentService(role) /\ UNCHANGED <<storeVars, ndec, restVars, wfVars, race, uiVars>>
    \/ get_temperature /\ UNCHANGED <<storeVars, ndec, restVars, wfVars, race, uiVars>>
    \/ \E temperature \in PostedTemperatures : set_temperature(temperature) /\ UNCHANGED <<storeVars, ndec, restVars, wfVars, race, uiVars>>
    \/ get_providers /\ UNCHANGED <<storeVars, ndec, restVars, wfVars, race, uiVars>>

SpecConfig == Init /\ [][NextConfig]_vars

\* ----------------------------------------------------------------- claims
Live(i, t) == ~(i.TTL < t) /\ i.STATUS # "USED"

ItemsOf(token_id) == {i \in store : i.TOKEN_ID = token_id}

\* C1: for a token issued AVAILABLE with REQUEST_COUNT = N > 0 and not
\* expired, after k <= N decrement_request_count calls made one after another
\* without store failure the k-th call returned N-k, the store holds exactly
\* one item of the token, its REQUEST_COUNT is N-k, and its STATUS is USED
\* if and only if N-k = 0.
C1_SequentialDecrement ==
    \A t \in Tokens :
        LET N == issued[t].REQUEST_COUNT
            k == ndec[t]
        IN  (/\ issued[t] # NoItem
             /\ call["p1"].pc = "idle"
             /\ 1 <= k /\ k <= N
             /\ now <= issued[t].TTL)
            => /\ ret = Ret("decrement", t, TRUE, N - k)
               /\ \E i \in ItemsOf(t) :
                      /\ ItemsOf(t) = {i}
                      /\ i.REQUEST_COUNT = N - k
                      /\ (i.STATUS = "USED" <=> N - k = 0)

\* the last of N >= 2 sequential decrements returned 0
C1_Witness ==
    \E t \in Tokens :
        /\ issued[t] # NoItem
        /\ issued[t].REQUEST_COUNT >= 2
        /\ ndec[t] = issued[t].REQUEST_COUNT
        /\ call["p1"].pc = "idle"
        /\ now <= issued[t].TTL
        /\ ret = Ret("decrement", t, TRUE, 0)

\* C4: once a decrement has written REQUEST_COUNT 0 with STATUS USED for a
\* token, get_token_data reports the token absent and the store holds no
\* AVAILABLE item of it, whatever calls follow or are still in flight.
C4_UsedIsAbsorbing ==
    \A t \in Tokens :
        exhausted[t] =>
            /\ get_token_data(store, now, t) = NoItem
            /\ \A i \in ItemsOf(t) : i.STATUS # "AVAILABLE"

\* C6: get_token_data returns the stored item if and only if an item of the
\* token exists whose TTL is not earlier than now and whose STATUS is not
\* USED, and a lookup leaves the store unchanged.
C6_Lookup ==
    \A t \in Tokens :
        LET r == get_token_data(store, now, t)
        IN  /\ r # NoItem <=> \E i \in ItemsOf(t) : Live(i, now)
            /\ r # NoItem => r \in ItemsOf(t) /\ Live(r, now)

C6_GetTokenData ==
    /\ []C6_Lookup
    /\ [][(ret' # ret /\ ret'.op = "get")
            => /\ store' = store
               /\ ret'.some = (get_token_data(store, now, ret'.tok) # NoItem)]_vars

\* a lookup of an expired token and a lookup of a USED token reported absent
\* while the item is still stored
C6_Witness ==
    /\ ret.op = "get" /\ ~ret.some
    /\ \E i \in ItemsOf(ret.tok) : i.TTL < now \/ i.STATUS = "USED"

C3_AuthGate ==
    [][(/\ resp' # resp
        /\ resp'.http # 422
        /\ \/ resp'.token = ""
           \/ ~resp'.known
           \/ resp'.expired
           \/ resp'.used)
        => /\ resp'.http = 401
           /\ resp'.model_calls = 0 /\ resp'.search_calls = 0
           /\ store' = store]_vars

\* C5: on a token issued with REQUEST_COUNT 1 that only the REST requests
\* use, the first statement request is answered 200 with a non-empty
\* statement and request_count 0, and a second one is answered 401 without a
\* model call.
C5_EndToEndExhaustion ==
    \A t \in Tokens :
        (/\ issued[t] # NoItem /\ issued[t].REQUEST_COUNT = 1
         /\ ret.op = "none" /\ call["p1"].pc = "idle"
         /\ resp.endpoint = "statement" /\ resp.token = t
         /\ ~resp.blank /\ ~resp.expired)
        => /\ nreq[t] = 1 =>
                /\ resp.http = 200
                /\ resp.statement # ""
                /\ resp.request_count = [some |-> TRUE, val |-> 0]
           /\ nreq[t] = 2 => resp.http = 401 /\ resp.model_calls = 0

\* C10: an agent operation called with an empty or whitespace-only topic
\* returns a warning string and makes no model call and no search call.
C10_EmptyTopicRejected ==
    (resp.agent # "not_called" /\ resp.blank)
        => /\ resp.agent = "warning"
           /\ resp.model_calls = 0 /\ resp.search_calls = 0


Executed(node) == \E i \in 1..Len(wtrace) : wtrace[i] = node

\* C8: a workflow invocation that returned executed decision, search,
\* summarize, generate in this order if the decision yielded should_search
\* true and decision, skip_search, generate if it yielded false; search or
\* summarize never runs in an invocation in which skip_search runs,
\* summarize runs only directly after search, and the invocation returns the
\* final_statement generate produced.
C8_WorkflowRouting ==
    /\ ~(Executed("skip_search") /\ (Executed("search") \/ Executed("summarize")))
    /\ \A i \in 1..Len(wtrace) :
           wtrace[i] = "summarize" => i > 1 /\ wtrace[i - 1] = "search"
    /\ Len(wtrace) >= 2 =>
           wtrace[2] = IF gstate.should_search THEN "search" ELSE "skip_search"
    /\ wpc = "done" =>
           /\ wtrace = IF gstate.should_search
                       THEN <<"decision", "search", "summarize", "generate">>
                       ELSE <<"decision", "skip_search", "generate">>
           /\ wresult = [some |-> TRUE, val |-> gstate.final_statement]

\* an invocation on the search path returned
C8_Witness ==
    /\ wpc = "done" /\ gstate.should_search
    /\ wtrace = <<"decision", "search", "summarize", "generate">>
    /\ wresult.some

\* C9: when the web search raises inside the search node the exception stays
\* in the node: search_results is the error string, the search is not
\* repeated, summarize is next, and an invocation that returns has executed
\* decision, search, summarize, generate and returns generate's
\* final_statement.
C9_SearchDegradation ==
    wcalls.search_errors > 0 =>
        /\ gstate.search_results = SearchError
        /\ wcalls.search = 1
        /\ \/ wpc \in {"summarize", "generate", "end", "done"}
           \/ wpc = "raised" /\ wtrace[Len(wtrace)] \in {"summarize", "generate"}
        /\ wpc = "done" =>
               /\ wtrace = <<"decision", "search", "summarize", "generate">>
               /\ wresult = [some |-> TRUE, val |-> gstate.final_statement]

\* an invocation whose search raised returned a statement
C9_Witness ==
    /\ wcalls.search_errors > 0
    /\ wpc = "done" /\ wresult.some /\ wresult.val # ""

C12_LostUpdate ==
    \A p, q \in Procs :
        (/\ p # q
         /\ call[p].pc = "idle" /\ call[q].pc = "idle"
         /\ race[p].raced /\ race[q].raced
         /\ race[p].returned /\ race[q].returned
         /\ race[p].tok = race[q].tok /\ race[p].read = race[q].read)
        => /\ race[p].val = race[p].read - 1
           /\ race[q].val = race[p].read - 1
           /\ Query(store, race[p].tok) # <<>>
           /\ Query(store, race[p].tok)[1].REQUEST_COUNT = race[p].read - 1

\* both callers read the count 2 of the issued token, both returned 1, and
\* the store holds 1
C12_Witness ==
    \E t \in Tokens :
        /\ issued[t].REQUEST_COUNT = 2
        /\ \A p \in Procs :
               /\ call[p].pc = "idle"
               /\ race[p] = [tok |-> t, read |-> 2, raced |-> TRUE,
                             returned |-> TRUE, val |-> 1]
        /\ \E i \in ItemsOf(t) : ItemsOf(t) = {i} /\ i.REQUEST_COUNT = 1

\* C13: under any interleaving of decrement_request_count calls on an issued
\* token, no stored item of the token has a negative REQUEST_COUNT, and no
\* step leaves an item whose REQUEST_COUNT is above every count the store
\* held for the token before the step.
C13_MonotoneQuota ==
    [][\A t \in Tokens :
           \A j \in {x \in store' : x.TOKEN_ID = t} :
               /\ j.REQUEST_COUNT >= 0
               /\ ItemsOf(t) # {} =>
                      \E i \in ItemsOf(t) : j.REQUEST_COUNT <= i.REQUEST_COUNT]_vars

ModelNodes == {"decision", "summarize", "generate"}

\* C14: when the model adapter raises at the decision, summarize or generate
\* node the invocation ends at that node: it is the last node executed, no
\* node runs twice, the model is not called again and nothing is returned;
\* and a statement, rebuttal or closing operation whose generation attempt
\* raises hands its caller an error string with an empty statement and no
\* request_count instead of raising.
C14_FailurePropagation ==
    /\ \A i, j \in 1..Len(wtrace) : i # j => wtrace[i] # wtrace[j]
    /\ wcalls.model = Cardinality({i \in 1..Len(wtrace) : wtrace[i] \in ModelNodes})
    /\ wcalls.model_errors > 0 =>
           /\ wcalls.model_errors = 1
           /\ wpc = "raised"
           /\ wtrace[Len(wtrace)] \in ModelNodes
           /\ ~wresult.some
    /\ \A r \in {generate_statement("topic"),
                 generate_rebuttal("topic", "argument"),
                 generate_closing_argument("topic", <<"statement">>)} :
           /\ r.kind # "raised"
           /\ r.kind # "generated" =>
                  r.kind = "error" /\ r.statement = "" /\ r.request_count = NoCount

\* the model raised at summarize: generate did not run, nothing was returned
C14_Witness ==
    /\ wpc = "raised" /\ wcalls.model_errors = 1
    /\ wtrace = <<"decision", "search", "summarize">>
    /\ ~wresult.some

ObjectOf(piece) == IF piece \in {Verdict, VerdictSq} THEN "verdict" ELSE "verdict2"

OthersProse(text, i) == \A k \in 1..Len(text) : k # i => text[k] = "prose"

\* C15: a response holding one double-quoted verdict object, after prose
\* without braces and before any prose, parses to that object; an object
\* written with single quotes (and no apostrophe inside a string), among
\* prose, parses to the same object; and when both parses fail the caller
\* gets the error with the raw text.
C15_JudgeParsing ==
    LET t == judge.text
    IN  /\ \A i \in 1..Len(t) :
               (/\ t[i] \in {Verdict, Verdict2}
                /\ \A k \in 1..Len(t) : k < i => t[k] = "prose"
                /\ \A k \in 1..Len(t) : k > i => t[k] \in {"prose", "{", "}"})
               => judge.kind = "object" /\ judge.object = ObjectOf(t[i])
        /\ \A i \in 1..Len(t) :
               (t[i] = VerdictSq /\ OthersProse(t, i))
               => judge.kind = "object" /\ judge.object = ObjectOf(t[i])
        /\ judge.kind = "error" => judge.raw = t

\* what a role is bound to, as get_role_provider reports it
Binding(c, role) == role_provider_get(c, role)

\* C16: role bindings are process-wide. The first construction of
\* ConfigService binds affirmative=1, negative=2, referee=3; afterwards a
\* binding changes only by set_role_provider(role, id), which binds role to id
\* and leaves every other role alone; constructing ConfigService again changes
\* neither the bindings nor the loaded providers; get_role_provider(role)
\* returns the current binding; and a DebateAgentService constructed for a
\* role holds the kind, model and api key of the profile the role is bound to.
C16_RoleBinding ==
    /\ [](/\ cresp.op = "get_role_provider" =>
               [some |-> cresp.some, val |-> cresp.val] = Binding(cfg, cresp.role)
          /\ cresp.op = "DebateAgentService" /\ ~cresp.raised =>
               /\ Binding(cfg, cresp.role) = [some |-> TRUE, val |-> cresp.id]
               /\ cresp.profile = Profile(env, cresp.id))
    /\ [][/\ ~cfg.initialized /\ cfg'.initialized =>
               cfg'.role_provider = DefaultRoleProvider
          /\ cfg.initialized /\ cfg'.role_provider # cfg.role_provider =>
               cresp'.op = "set_role_provider"
          /\ cfg.initialized /\ cresp'.op = "set_role_provider" =>
               /\ Binding(cfg', cresp'.role) = [some |-> TRUE, val |-> cresp'.id]
               /\ \A r \in ConfigRoles \ {cresp'.role} : Binding(cfg', r) = Binding(cfg, r)
          /\ cfg.initialized /\ cresp'.op = "ConfigService" =>
               /\ cfg'.role_provider = cfg.role_provider
               /\ cfg'.providers = cfg.providers]_vars

\* C16 witness: a role bound at runtime to profile 2 and an agent constructed
\* for it afterwards holding the second profile, a role never rebound still
\* at its default
C16_Witness ==
    /\ cresp.op = "DebateAgentService"
    /\ ~cresp.raised
    /\ cresp.role = "moderator"
    /\ cresp.id = 2
    /\ cresp.profile = Profile(env, 2)
    /\ cfg.role_provider["affirmative"] = 1

\* the kinds that have an adapter class of their own
SupportedKinds == {"openai", "deepseek", "gemini"}

\* C17: constructing an agent for a role that has no binding, whose binding
\* names a provider id that was not loaded, or whose profile has a kind
\* outside the supported kinds, fails during construction and produces no
\* agent holding a model adapter.
C17_ProviderConfigFatal ==
    cresp.op = "DebateAgentService" =>
        LET v == Binding(cfg, cresp.role)
        IN  (~Loaded(cfg, v) \/ cfg.providers[v.val].provider \notin SupportedKinds) =>
                cresp.raised /\ cresp.adapter = ""

\* get_agents returned the three agents and the configuration service
AgentsReady(filled) == filled = {"affirmative", "negative", "referee", "config"}

\* C18: a POST of a temperature within [0.0, 2.0] succeeds and stores it, so
\* that a following get returns it; a POST of a temperature outside the
\* range is answered with HTTP 400 and leaves the stored temperature as it was.
C18_TemperatureEndpoint ==
    [][AgentsReady(agents) /\ cresp'.op = "set_temperature" =>
          IF InRange(cresp'.val)
          THEN cresp'.http = 200 /\ cfg'.temperature = cresp'.val
          ELSE cresp'.http = 400 /\ cfg'.temperature = cfg.temperature]_vars

\* the listing of the loaded profiles: id, provider kind and model name
Listing(c) == [i \in DOMAIN c.providers |-> [id |-> i, provider |-> c.providers[i].provider, model |-> c.providers[i].model]]

\* C19: the list-providers operation returns, for each loaded provider
\* profile, its id, provider kind and model name and nothing else, so that
\* the listing does not depend on the api keys.
C19_ListingWithoutKeys ==
    cresp.op = "get_providers" /\ AgentsReady(agents) =>
        /\ cresp.http = 200
        /\ ~list_providers(cfg).raised
        /\ list_providers(cfg).listing = Listing(cfg)

\* the largest n such that PROVIDER1 .. PROVIDERn are all set
SetPrefix(e) == Cardinality({n \in 1..Len(e) : \A i \in 1..n : e[i].provider # ""})

\* C20: once ConfigService is constructed the loaded provider ids are exactly
\* 1..n, n the largest number such that PROVIDER1 .. PROVIDERn are all set,
\* and no later operation changes the loaded profiles.
C20_DenseImmutable ==
    /\ [](cfg.initialized => DOMAIN cfg.providers = 1..SetPrefix(env))
    /\ [][cfg.initialized => cfg'.providers = cfg.providers]_vars

\* the four provenance fields of an item
Provenance(i) == <<i.PAYMENT_ID, i.EMAIL, i.CREATED_AT, i.TTL>>

\* C21: decrement_request_count and mark_token_as_used never change a
\* token's PAYMENT_ID, EMAIL, CREATED_AT or TTL: every item the store holds
\* for an issued token, and every item a call in flight is about to write,
\* carries the four values generate_available_token set.
C21_ProvenanceImmutable ==
    /\ \A i \in store : Provenance(i) = Provenance(issued[i.TOKEN_ID])
    /\ \A p \in Procs :
           call[p].pc \in {"dec_delete", "dec_put", "mark_delete", "mark_put"} =>
               Provenance(call[p].token_data) = Provenance(issued[call[p].tok])

\* C21 witness: a decrement returned a count below the issued one and the
\* item it wrote is in the store
C21_Witness ==
    \E t \in Tokens :
        /\ ret = Ret("decrement", t, TRUE, issued[t].REQUEST_COUNT - 1)
        /\ \E i \in ItemsOf(t) : i.REQUEST_COUNT = issued[t].REQUEST_COUNT - 1

\* C22: validate_token is an existence check: with the store reachable it
\* returns true exactly when the store holds an item with that TOKEN_ID,
\* whatever its TTL and STATUS; with the store unreachable it returns false;
\* it never changes the store.
C22_ValidateExistence ==
    [][/\ (ret' # ret /\ ret'.op = "validate") =>
              /\ store' = store
              /\ ret'.some = (ItemsOf(ret'.tok) # {})
       /\ (ret' # ret /\ ret'.op = "validate_unreachable") =>
              /\ store' = store
              /\ ~ret'.some]_vars

\* C22 witness: validate_token returned true for a token whose only item is
\* USED or expired, which get_token_data reports absent
C22_Witness ==
    /\ ret.op = "validate" /\ ret.some
    /\ get_token_data(store, now, ret.tok) = NoItem
    /\ \A i \in ItemsOf(ret.tok) : i.STATUS = "USED" \/ i.TTL < now

\* the response without a leading <fence>json or <fence> and without a
\* trailing <fence>
Unfenced(raw) ==
    LET a == IF raw[1] \in {"<fence>json", "<fence>"} THEN 2 ELSE 1
        b == IF raw[Len(raw)] = "<fence>" THEN Len(raw) - 1 ELSE Len(raw)
    IN  SubSeq(raw, a, b)

\* C23: after the decision node took a model response, if the response
\* without its fences is a JSON object then should_search, search_query and
\* decision_reasoning are its fields, with false, the empty string and
\* 'No reasoning provided' for a missing field; otherwise should_search says
\* whether the raw response contains 'true' in any case, search_query is
\* empty and decision_reasoning is the raw response.
C23_DecisionParsing ==
    wcalls.decision_response # <<>> =>
        LET raw == wcalls.decision_response
            body == Unfenced(raw)
        IN  IF Len(body) = 1 /\ body[1] \in ObjectBodies
            THEN LET obj == json_loads(body[1])
                 IN  /\ gstate.should_search =
                            IF "should_search" \in DOMAIN obj THEN obj.should_search ELSE FALSE
                     /\ gstate.search_query =
                            IF "search_query" \in DOMAIN obj THEN obj.search_query ELSE ""
                     /\ gstate.decision_reasoning =
                            <<IF "reasoning" \in DOMAIN obj THEN obj.reasoning
                              ELSE "No reasoning provided">>
            ELSE /\ gstate.should_search =
                        (\E i \in 1..Len(raw) :
                            raw[i] \in {"[true]", "TRUE, a search is needed"}
                            \/ (raw[i] \in ObjectBodies
                                /\ "should_search" \in DOMAIN json_loads(raw[i])
                                /\ json_loads(raw[i]).should_search))
                 /\ gstate.search_query = ""
                 /\ gstate.decision_reasoning = raw

\* C23 witness: a fenced object without search_query and reasoning was
\* parsed, the defaults filled in, and the invocation went on to search
C23_Witness ==
    /\ wcalls.decision_response = <<"<fence>json", "{\"should_search\": true}", "<fence>">>
    /\ gstate.should_search
    /\ gstate.search_query = ""
    /\ gstate.decision_reasoning = <<"No reasoning provided">>
    /\ Executed("search")

\* C24: a decrement_request_count call that found a live AVAILABLE item with
\* REQUEST_COUNT <= 0 returns 0 and leaves the store with a USED item and no
\* AVAILABLE item of the token; a call on a token get_token_data reports
\* absent returns absent and writes nothing.
C24_DecrementAtZero ==
    [][\A p \in Procs :
          /\ (call[p].pc # "idle" /\ call[p].from_dec /\ call'[p].pc = "idle") =>
                 /\ ret' = Ret("decrement", call[p].tok, TRUE, 0)
                 /\ \E i \in store' : i.TOKEN_ID = call[p].tok /\ i.STATUS = "USED"
                 /\ \A i \in store' : i.TOKEN_ID = call[p].tok => i.STATUS # "AVAILABLE"
          /\ (call[p].pc = "idle" /\ call'[p].pc = "idle"
              /\ ret' # ret /\ ret'.op = "decrement" /\ ~ret'.some) =>
                 store' = store]_vars

\* C25: under any interleaving of decrement_request_count and
\* mark_token_as_used calls, failing deletes included, the store holds at
\* most one item per TOKEN_ID, never an AVAILABLE and a USED item of one token.
C25_SingleRecord ==
    \A t \in Tokens : Cardinality(ItemsOf(t)) <= 1

\* the state with the fields a node may write put back to their old values
Restored(new, old, node) ==
    CASE node = "decision" ->
            [new EXCEPT !.should_search = old.should_search,
                        !.search_query = old.search_query,
                        !.decision_reasoning = old.decision_reasoning]
      [] node = "search" -> [new EXCEPT !.search_results = old.search_results]
      [] node = "summarize" -> [new EXCEPT !.summary = old.summary]
      [] node = "skip_search" ->
            [new EXCEPT !.search_results = old.search_results, !.summary = old.summary]
      [] node = "generate" -> [new EXCEPT !.final_statement = old.final_statement]

\* C26: within one invocation a node changes only its own output fields:
\* decision should_search, search_query and decision_reasoning; search
\* search_results; summarize summary; skip_search search_results and summary;
\* generate final_statement. So prompt and role never change, and
\* should_search never changes after the decision node; a step that runs no
\* node and starts no invocation leaves the state alone.
C26_NodeFrames ==
    [][IF wtrace' = <<>> THEN TRUE
       ELSE IF wtrace' # wtrace
       THEN /\ wtrace' = Append(wtrace, wtrace'[Len(wtrace')])
            /\ Restored(gstate', gstate, wtrace'[Len(wtrace')]) = gstate
       ELSE gstate' = gstate]_vars

\* C26 witness: an invocation on the search path returned with every output
\* field written and the prompt and role it was started with
C26_Witness ==
    /\ wpc = "done"
    /\ wtrace = <<"decision", "search", "summarize", "generate">>
    /\ gstate.prompt = "prompt B" /\ gstate.role = "negative"
    /\ gstate.should_search
    /\ gstate.search_results = "1. title URL Summary"
    /\ gstate.summary = "summary"
    /\ gstate.final_statement = "final statement"

\* C27: every started invocation eventually has returned after generate or
\* has had a model call raise; no node runs twice in an invocation, nothing
\* runs after generate, and an invocation in which a model call raised
\* stopped at the node that made the call.
C27_Termination ==
    /\ [](/\ \A i, j \in 1..Len(wtrace) : wtrace[i] = wtrace[j] => i = j
          /\ \A i \in 1..Len(wtrace) : wtrace[i] = "generate" => i = Len(wtrace)
          /\ wpc = "done" => wtrace # <<>> /\ wtrace[Len(wtrace)] = "generate"
          /\ wpc = "raised" <=> wcalls.model_errors > 0
          /\ wpc = "raised" => wtrace[Len(wtrace)] \in ModelNodes)
    /\ (wpc = "decision") ~> (wpc = "done" \/ wcalls.model_errors > 0)

\* C27 witness: an invocation on the skip path returned, no call having raised
C27_Witness ==
    /\ wpc = "done"
    /\ wcalls.model_errors = 0 /\ wcalls.search_errors = 0
    /\ wtrace = <<"decision", "skip_search", "generate">>

\* C28: a completed invocation called the model adapter exactly 3 times when
\* should_search is true and exactly 2 times when it is false, and the web
\* search exactly once on the search path and never on the skip path.
C28_CallCounts ==
    wpc = "done" =>
        /\ wcalls.model = IF gstate.should_search THEN 3 ELSE 2
        /\ wcalls.search = IF Executed("search") THEN 1 ELSE 0
        /\ Executed("search") <=> gstate.should_search
        /\ Executed("skip_search") <=> ~gstate.should_search

\* C28 witness: a completed invocation on the search path whose web search
\* raised: three model calls and one search call
C28_Witness ==
    /\ wpc = "done"
    /\ gstate.should_search
    /\ wcalls.model = 3 /\ wcalls.search = 1 /\ wcalls.search_errors = 1

\* C29: every model call of an invocation is made with the temperature that
\* was passed to run_workflow, so that a generation after a change of the
\* global temperature uses the new value.
C29_TemperatureTakesEffect ==
    \A temperature \in wcalls.temperatures : temperature = svc.temperature

\* C30: a generation request that produces no generated result (answered
\* 422 or 401, turned away with a warning for an empty topic, or ended by an
\* exception) leaves every stored item of every token as it was.
C30_FailedRequestsFree ==
    [][(resp' # resp /\ resp'.agent # "generated") =>
          \A t \in Tokens : {i \in store' : i.TOKEN_ID = t} = ItemsOf(t)]_vars

\* C30 witness: a request carrying a live token was turned into an error
\* string by the exception of its generation attempt, and the store holds the
\* token's item as issued
C30_Witness ==
    /\ resp.agent = "error"
    /\ resp.token \in Tokens
    /\ resp.known /\ ~resp.expired /\ ~resp.used
    /\ ItemsOf(resp.token) = {issued[resp.token]}

====
